---- MODULE Spec2Model ----
(***************************************************************************)
(* Model of DemoSceneScript (sample-workspace/src/scenes/demoSceneScript.ts)*)
(* the scene script that wires the Lex voice feature, the Sumerian host    *)
(* and the DOM of the voice-chat demo.                                     *)
(*                                                                         *)
(* The script runs on the browser's single event-loop thread, so every     *)
(* handler runs to completion (or to its first await) before the next      *)
(* event is dispatched: one action per dispatched event.  Handlers are     *)
(* operators from a state record to a state record, composed in the order  *)
(* the code calls them.                                                    *)
(***************************************************************************)
EXTENDS Naturals, Sequences, FiniteSets

VARIABLES
    locationHost,    \* window.location.host
    timer,           \* the setTimeout of onStart: "unset", "pending", "fired"
    awsConfigured,   \* AWS.config.region / AWS.config.credentials assigned
    lex,             \* this.lex: NoLex (undefined) or the LexFeature's botConfig
    listeners,       \* this.lex.listenTo registrations, in registration order
    handlers,        \* DOM event-handler properties of the three buttons
    elRefs,          \* this.messageContainerEl / this.transcriptTextEl assigned
    classList,       \* CSS classes of #userMessageContainer
    transcriptText,  \* innerText of #transcriptText
    screen,          \* the screen made visible by the last showUiScreen
    pending,         \* enableMicInput promises not yet settled (attempt ids)
    acquireCalls,    \* invocations of acquireMicrophoneAccess so far
    micCalls,        \* calls of this.lex.enableMicInput so far
    triggers,        \* acquisition triggers so far (timer, enable-mic click, 'z')
    lastEvent,       \* the event dispatched by the last step
    lastResponse,    \* the response carried by the last lexResponseReady event
    lastOutcome,     \* the outcome of the last settled enableMicInput promise
    newestOutcome,   \* the outcome of the most recently started attempt, "" until it settles
    trace,           \* the calls made while handling the last event, in order
    spoken           \* the texts passed to TextToSpeechFeature.play by it

vars == <<locationHost, timer, awsConfigured, lex, listeners, handlers, elRefs,
          classList, transcriptText, screen, pending, acquireCalls, micCalls,
          triggers, lastEvent, lastResponse, lastOutcome, newestOutcome, trace,
          spoken>>

----------------------------------------------------------------------------
(* Bounds *)

\* acquisition triggers (timer callback, enable-mic clicks, 'z' presses)
MaxAttempts == 3
\* length of the texts of a chatbot response
MaxLen == 2

(* Program constants *)

\* the characters of the texts
Alphabet == {"a"}

Texts == UNION {[1..n -> Alphabet] : n \in 0..MaxLen}

Responses == [inputTranscript : Texts, message : Texts]

Greeting ==
    <<"Hello. How can I help?  You can say things like, \"I'd like to rent a car,\" or, \"Help me book a hotel\".">>

BotConfig == [botName |-> "BookTrip", botAlias |-> "Dev"]

NoLex == [botName |-> "", botAlias |-> ""]

Hosts == {"", "localhost:1338"}

Screens == {"startScreen", "micInitScreen", "micPermissionDismissedScreen",
            "micDisabledScreen", "chatbotUiScreen"}

\* what a settled enableMicInput promise carries: "ok", or the message of the
\* error it was rejected with
FailureMessages == {"Permission dismissed", "Permission denied",
                    "permission dismissed", "Requested device not found"}

Outcomes == {"ok"} \cup FailureMessages

\* the message of the TypeError of calling a method of undefined
UndefinedLexMessage == "Cannot read properties of undefined (reading 'enableMicInput')"

HandlerProps == {"startButton.onclick", "enableMicButton.onclick",
                 "talkButton.onmousedown", "talkButton.onmouseup"}

LexEvents == {"lexResponseReady", "recordBegin", "recordEnd"}

NoResponse == [inputTranscript |-> <<>>, message |-> <<>>]

\* no showUiScreen call yet: the page shows whatever its markup shows
NoScreen == "none"

----------------------------------------------------------------------------
(* The state as a record, and back *)

St ==
    [locationHost |-> locationHost, awsConfigured |-> awsConfigured, lex |-> lex,
     listeners |-> listeners, handlers |-> handlers, elRefs |-> elRefs,
     classList |-> classList, transcriptText |-> transcriptText,
     screen |-> screen, pending |-> pending, acquireCalls |-> acquireCalls,
     micCalls |-> micCalls, trace |-> <<>>, spoken |-> <<>>]

Apply(s) ==
    /\ awsConfigured' = s.awsConfigured
    /\ lex' = s.lex
    /\ listeners' = s.listeners
    /\ handlers' = s.handlers
    /\ elRefs' = s.elRefs
    /\ classList' = s.classList
    /\ transcriptText' = s.transcriptText
    /\ screen' = s.screen
    /\ pending' = s.pending
    /\ acquireCalls' = s.acquireCalls
    /\ micCalls' = s.micCalls
    /\ trace' = s.trace
    /\ spoken' = s.spoken
    /\ UNCHANGED locationHost

Call(s, op, arg) == [s EXCEPT !.trace = Append(@, <<op, arg>>)]

----------------------------------------------------------------------------
(* External collaborators *)

\* domUtils.showUiScreen: makes exactly the named screen visible
showUiScreen(s, name) == [Call(s, "showUiScreen", name) EXCEPT !.screen = name]

\* hostNode.host.TextToSpeechFeature.play(text)
play(s, text) == [Call(s, "play", "") EXCEPT !.spoken = Append(@, text)]

\* this.lex.listenTo(event, callback)
listenTo(s, event, callback) ==
    [Call(s, "listenTo", event) EXCEPT !.listeners = Append(@, <<event, callback>>)]

\* element.on<event> = handler
bind(s, prop, handler) ==
    [Call(s, "bind", prop) EXCEPT !.handlers = [@ EXCEPT ![prop] = handler]]

----------------------------------------------------------------------------
(* DemoSceneScript *)

\* mutant: the wrong class is removed
hideUserMessages_WrongClass(s) ==
    [Call(s, "classList.remove", "processing")
        EXCEPT !.classList = @ \ {"processing"}]

\* hideUserMessages()
hideUserMessages(s) ==
    [Call(s, "classList.remove", "showingMessage")
        EXCEPT !.classList = @ \ {"showingMessage"}]

\* displayProcessingMessage()
displayProcessingMessage(s) ==
    [Call(s, "classList.add", "processing")
        EXCEPT !.classList = @ \cup {"processing"}]

\* the template literal of displaySpeechInputTranscript: the text between a
\* left and a right double quotation mark
Quoted(text) == <<"LEFT DOUBLE QUOTATION MARK">> \o text
                    \o <<"RIGHT DOUBLE QUOTATION MARK">>

\* mutant: the quoted text is appended to the transcript element's text
displaySpeechInputTranscript_Appends(s, text) ==
    [Call(Call(s, "innerText=", "transcriptText"), "classList.add", "showingMessage")
        EXCEPT !.transcriptText = @ \o Quoted(text),
               !.classList = @ \cup {"showingMessage"}]

\* displaySpeechInputTranscript(text)
displaySpeechInputTranscript(s, text) ==
    [Call(Call(s, "innerText=", "transcriptText"), "classList.add", "showingMessage")
        EXCEPT !.transcriptText = Quoted(text),
               !.classList = @ \cup {"showingMessage"}]

\* mutant: the 'processing' class is left on the container
handleLexResponse_KeepsProcessing(s, response) ==
    IF ~s.elRefs
    THEN Call(s, "throw", "TypeError")
    ELSE play(displaySpeechInputTranscript(Call(s, "console.log", "response"),
                                           response.inputTranscript),
              response.message)

\* handleLexResponse(response); with the element references unset the first
\* statement throws and nothing else runs
handleLexResponse(s, response) ==
    IF ~s.elRefs
    THEN Call(s, "throw", "TypeError")
    ELSE LET s1 == [Call(Call(s, "console.log", "response"),
                         "classList.remove", "processing")
                        EXCEPT !.classList = @ \ {"processing"}]
             s2 == displaySpeechInputTranscript(s1, response.inputTranscript)
         IN  play(s2, response.message)

\* mutant: starting the main experience also hides the user messages
startMainExperience_HidesMessages(s) ==
    play(hideUserMessages(showUiScreen(s, "chatbotUiScreen")), Greeting)

\* startMainExperience()
startMainExperience(s) == play(showUiScreen(s, "chatbotUiScreen"), Greeting)

\* mutant: a blanket catch-all, whatever the error's message
catchMicError_CatchAll(s, message) == showUiScreen(s, "micDisabledScreen")

\* the catch block of acquireMicrophoneAccess, for an error with this message
catchMicError(s, message) ==
    IF message = "Permission dismissed"
    THEN showUiScreen(s, "micPermissionDismissedScreen")
    ELSE showUiScreen(s, "micDisabledScreen")

\* this.lex.enableMicInput(): the call, returning a promise still to settle
enableMicInput(s) ==
    [Call(s, "enableMicInput", "")
        EXCEPT !.micCalls = @ + 1, !.pending = @ \cup {s.acquireCalls}]

\* mutant: the enableMicInput call is outside the try block, so the TypeError
\* of an undefined this.lex escapes the handler
acquireMicrophoneAccess_Unguarded(s) ==
    LET s1 == showUiScreen([s EXCEPT !.acquireCalls = @ + 1], "micInitScreen")
    IN  IF s1.lex = NoLex
        THEN Call(s1, "throw", "TypeError")
        ELSE enableMicInput(s1)

\* acquireMicrophoneAccess(), up to its await.  With this.lex undefined the
\* call throws a TypeError inside the try block, and the catch block runs at
\* once.
acquireMicrophoneAccess(s) ==
    LET s1 == showUiScreen([s EXCEPT !.acquireCalls = @ + 1], "micInitScreen")
    IN  IF s1.lex = NoLex
        THEN catchMicError(s1, UndefinedLexMessage)
        ELSE enableMicInput(s1)

\* mutant: the outcome is shown only once no other attempt is pending
acquireMicrophoneAccessResumed_WaitsForAll(s, id, outcome) ==
    LET s1 == [s EXCEPT !.pending = @ \ {id}]
    IN  IF s1.pending # {}
        THEN s1
        ELSE IF outcome = "ok"
             THEN showUiScreen(Call(s1, "console.log", "Microphone ready"),
                               "startScreen")
             ELSE catchMicError(s1, outcome)

\* mutant: a granted microphone starts the main experience by itself
acquireMicrophoneAccessResumed_AutoStart(s, id, outcome) ==
    LET s1 == [s EXCEPT !.pending = @ \ {id}]
    IN  IF outcome = "ok"
        THEN startMainExperience(Call(s1, "console.log", "Microphone ready"))
        ELSE catchMicError(s1, outcome)

\* mutant: a failed attempt asks for the microphone again
acquireMicrophoneAccessResumed_Retry(s, id, outcome) ==
    LET s1 == [s EXCEPT !.pending = @ \ {id}]
    IN  IF outcome = "ok"
        THEN showUiScreen(Call(s1, "console.log", "Microphone ready"), "startScreen")
        ELSE acquireMicrophoneAccess(catchMicError(s1, outcome))

\* acquireMicrophoneAccess(), from its await on, once the promise of attempt
\* id has settled with this outcome
acquireMicrophoneAccessResumed(s, id, outcome) ==
    LET s1 == [s EXCEPT !.pending = @ \ {id}]
    IN  IF outcome = "ok"
        THEN showUiScreen(Call(s1, "console.log", "Microphone ready"), "startScreen")
        ELSE catchMicError(s1, outcome)

\* initConversationManagement()
initConversationManagement(s) ==
    LET s1 == bind(s, "talkButton.onmousedown", "beginVoiceRecording")
        s2 == bind(s1, "talkButton.onmouseup", "endVoiceRecording")
        s3 == listenTo(s2, "lexResponseReady", "handleLexResponse")
        s4 == listenTo(s3, "recordBegin", "hideUserMessages")
        s5 == listenTo(s4, "recordEnd", "displayProcessingMessage")
    IN  [s5 EXCEPT !.elRefs = TRUE]

\* initChatbot()
initChatbot(s) ==
    LET s1 == [Call(Call(s, "AWS.config=", "region"), "AWS.config=", "credentials")
                  EXCEPT !.awsConfigured = TRUE]
        s2 == [Call(Call(s1, "new", "LexRuntime"), "new", "LexFeature")
                  EXCEPT !.lex = BotConfig]
        s3 == listenTo(s2, "lexResponseReady", "handleLexResponse")
    IN  initConversationManagement(s3)

\* mutant: the enable-mic button is given the start button's handler
initUi_WrongHandler(s) ==
    IF s.locationHost = ""
    THEN Call(s, "alert", "")
    ELSE bind(bind(s, "startButton.onclick", "startMainExperience"),
              "enableMicButton.onclick", "startMainExperience")

\* initUi()
initUi(s) ==
    IF s.locationHost = ""
    THEN Call(s, "alert", "")
    ELSE bind(bind(s, "startButton.onclick", "startMainExperience"),
              "enableMicButton.onclick", "acquireMicrophoneAccess")

\* mutant: the microphone is requested before the click handlers are bound
onStartCallback_MicFirst(s) == initUi(acquireMicrophoneAccess(initChatbot(s)))

\* the callback onStart hands to setTimeout
onStartCallback(s) == acquireMicrophoneAccess(initUi(initChatbot(s)))

\* keyDownHandler: 'z' key down
keyDownHandler(s) == acquireMicrophoneAccess(s)

\* talkKeyDownHandler: ' ' key down
talkKeyDownHandler(s) == s

\* talkKeyUpHandler: ' ' key up
talkKeyUpHandler(s) == Call(s, "console.log", "End listening.")

\* the arrow functions bound to the talk button
talkButtonMouseDown(s) ==
    Call(Call(s, "console.log", "Begin recording"), "beginVoiceRecording", "")

talkButtonMouseUp(s) ==
    Call(Call(s, "console.log", "End recording"), "endVoiceRecording", "")

\* the browser dispatching a DOM event to the handler property prop
Dispatch(s, prop) ==
    CASE s.handlers[prop] = "none" -> s
      [] s.handlers[prop] = "startMainExperience" -> startMainExperience(s)
      [] s.handlers[prop] = "acquireMicrophoneAccess" -> acquireMicrophoneAccess(s)
      [] s.handlers[prop] = "beginVoiceRecording" -> talkButtonMouseDown(s)
      [] s.handlers[prop] = "endVoiceRecording" -> talkButtonMouseUp(s)

\* a callback registered with listenTo
Invoke(s, callback, response) ==
    CASE callback = "handleLexResponse" -> handleLexResponse(s, response)
      [] callback = "hideUserMessages" -> hideUserMessages(s)
      [] callback = "displayProcessingMessage" -> displayProcessingMessage(s)

\* the LexFeature emitting event: every listener registered for it runs, in
\* registration order
RECURSIVE Emit(_, _, _, _)
Emit(s, ls, event, response) ==
    IF ls = <<>>
    THEN s
    ELSE Emit(IF Head(ls)[1] = event THEN Invoke(s, Head(ls)[2], response) ELSE s,
              Tail(ls), event, response)

----------------------------------------------------------------------------
(* The events the event loop dispatches *)

Event(tag, response, outcome) ==
    /\ lastEvent' = tag
    /\ lastResponse' = response
    /\ lastOutcome' = outcome
    /\ newestOutcome' =
           IF micCalls' # micCalls
           THEN ""
           ELSE IF acquireCalls \in pending /\ acquireCalls \notin pending'
                THEN outcome
                ELSE newestOutcome

\* triggers still allowed to the user: one is kept for the timer callback
UserTriggersLeft ==
    triggers + (IF timer = "fired" THEN 0 ELSE 1) < MaxAttempts

Init ==
    /\ locationHost \in Hosts
    /\ timer = "unset"
    /\ awsConfigured = FALSE
    /\ lex = NoLex
    /\ listeners = <<>>
    /\ handlers = [p \in HandlerProps |-> "none"]
    /\ elRefs = FALSE
    /\ classList = {}
    /\ transcriptText = <<>>
    /\ screen = NoScreen
    /\ pending = {}
    /\ acquireCalls = 0
    /\ micCalls = 0
    /\ triggers = 0
    /\ lastEvent = "constructor"
    /\ lastResponse = NoResponse
    /\ lastOutcome = ""
    /\ newestOutcome = ""
    /\ trace = <<>>
    /\ spoken = <<>>

\* onStart(): arms the timer
OnStart ==
    /\ timer = "unset"
    /\ timer' = "pending"
    /\ Apply(Call(St, "setTimeout", "5 * 1000"))
    /\ Event("onStart", NoResponse, "")
    /\ UNCHANGED triggers

\* the timer fires
TimerFire ==
    /\ timer = "pending"
    /\ timer' = "fired"
    /\ Apply(onStartCallback(St))
    /\ triggers' = triggers + 1
    /\ Event("timer", NoResponse, "")

ClickStartButton ==
    /\ timer # "unset"
    /\ Apply(Dispatch(St, "startButton.onclick"))
    /\ Event("click:startButton", NoResponse, "")
    /\ UNCHANGED <<timer, triggers>>

ClickEnableMicButton ==
    /\ timer # "unset"
    /\ UserTriggersLeft
    /\ Apply(Dispatch(St, "enableMicButton.onclick"))
    /\ triggers' = triggers + 1
    /\ Event("click:enableMicButton", NoResponse, "")
    /\ UNCHANGED timer

TalkButtonDown ==
    /\ timer # "unset"
    /\ Apply(Dispatch(St, "talkButton.onmousedown"))
    /\ Event("mousedown:talkButton", NoResponse, "")
    /\ UNCHANGED <<timer, triggers>>

TalkButtonUp ==
    /\ timer # "unset"
    /\ Apply(Dispatch(St, "talkButton.onmouseup"))
    /\ Event("mouseup:talkButton", NoResponse, "")
    /\ UNCHANGED <<timer, triggers>>

KeyDownZ ==
    /\ timer # "unset"
    /\ UserTriggersLeft
    /\ Apply(keyDownHandler(St))
    /\ triggers' = triggers + 1
    /\ Event("keydown:z", NoResponse, "")
    /\ UNCHANGED timer

KeyDownSpace ==
    /\ timer # "unset"
    /\ Apply(talkKeyDownHandler(St))
    /\ Event("keydown:space", NoResponse, "")
    /\ UNCHANGED <<timer, triggers>>

KeyUpSpace ==
    /\ timer # "unset"
    /\ Apply(talkKeyUpHandler(St))
    /\ Event("keyup:space", NoResponse, "")
    /\ UNCHANGED <<timer, triggers>>

\* the LexFeature emits lexResponseReady with a response
LexResponseReady ==
    /\ lex # NoLex
    /\ \E response \in Responses :
        /\ Apply(Emit(St, listeners, "lexResponseReady", response))
        /\ Event("lexResponseReady", response, "")
    /\ UNCHANGED <<timer, triggers>>

RecordBegin ==
    /\ lex # NoLex
    /\ Apply(Emit(St, listeners, "recordBegin", NoResponse))
    /\ Event("recordBegin", NoResponse, "")
    /\ UNCHANGED <<timer, triggers>>

RecordEnd ==
    /\ lex # NoLex
    /\ Apply(Emit(St, listeners, "recordEnd", NoResponse))
    /\ Event("recordEnd", NoResponse, "")
    /\ UNCHANGED <<timer, triggers>>

\* a pending enableMicInput promise settles and its awaiter resumes
MicSettled ==
    /\ \E id \in pending, outcome \in Outcomes :
        /\ Apply(acquireMicrophoneAccessResumed(St, id, outcome))
        /\ Event("micSettled", NoResponse, outcome)
    /\ UNCHANGED <<timer, triggers>>

Next ==
    \/ OnStart
    \/ TimerFire
    \/ ClickStartButton
    \/ ClickEnableMicButton
    \/ TalkButtonDown
    \/ TalkButtonUp
    \/ KeyDownZ
    \/ KeyDownSpace
    \/ KeyUpSpace
    \/ LexResponseReady
    \/ RecordBegin
    \/ RecordEnd
    \/ MicSettled

Spec == Init /\ [][Next]_vars

TypeOK ==
    /\ locationHost \in Hosts
    /\ timer \in {"unset", "pending", "fired"}
    /\ awsConfigured \in BOOLEAN
    /\ lex \in {NoLex, BotConfig}
    /\ \A i \in DOMAIN listeners : listeners[i][1] \in LexEvents
    /\ handlers \in [HandlerProps -> {"none", "startMainExperience",
                        "acquireMicrophoneAccess", "beginVoiceRecording",
                        "endVoiceRecording"}]
    /\ elRefs \in BOOLEAN
    /\ classList \subseteq {"processing", "showingMessage"}
    /\ screen \in Screens \cup {NoScreen}
    /\ pending \subseteq 1..MaxAttempts
    /\ acquireCalls \in 0..MaxAttempts
    /\ micCalls \in 0..MaxAttempts
    /\ triggers \in 0..MaxAttempts
    /\ lastResponse \in Responses
    /\ lastOutcome \in Outcomes \cup {""}
    /\ newestOutcome \in Outcomes \cup {""}

----------------------------------------------------------------------------
(* Properties *)

\* how often the call <<op, arg>> occurs in a trace
Count(tr, op, arg) == Cardinality({i \in DOMAIN tr : tr[i] = <<op, arg>>})

\* the positions of the calls of op in the trace of the last event
At(op) == {i \in DOMAIN trace : trace[i][1] = op}

\* the showUiScreen calls of the trace of the last event, in order
Shown == SelectSeq(trace, LAMBDA e : e[1] = "showUiScreen")

\* every position of A is before every position of B, and neither is empty
Before(A, B) == A # {} /\ B # {} /\ \A i \in A, j \in B : i < j

\* C1: in an embedded preview context (window.location.host empty) the timer
\* callback of onStart binds no DOM handler, makes no microphone-access
\* attempt, and only shows the blocking notice.
C1_PreviewSkipsAllWiring ==
    (lastEvent = "timer" /\ locationHost = "") =>
        /\ At("bind") = {}
        /\ At("enableMicInput") = {}
        /\ Count(trace, "showUiScreen", "micInitScreen") = 0
        /\ \A p \in HandlerProps : handlers[p] = "none"
        /\ Count(trace, "alert", "") = 1

\* C2: a settled enableMicInput selects exactly one screen: the start screen
\* on success, the mic-permission-dismissed screen on a failure with message
\* exactly "Permission dismissed", the mic-disabled screen on any other
\* failure; and every enableMicInput call is directly preceded by showing the
\* mic-init screen, which is the visible screen while the handler suspends.
C2_MicOutcomeSelectsScreen ==
    /\ lastEvent = "micSettled" =>
        /\ lastOutcome = "ok" => Shown = <<<<"showUiScreen", "startScreen">>>>
        /\ lastOutcome = "Permission dismissed" =>
               Shown = <<<<"showUiScreen", "micPermissionDismissedScreen">>>>
        /\ lastOutcome \notin {"ok", "Permission dismissed"} =>
               Shown = <<<<"showUiScreen", "micDisabledScreen">>>>
        /\ screen = Shown[1][2]
    /\ \A i \in At("enableMicInput") :
        /\ i > 1
        /\ trace[i - 1] = <<"showUiScreen", "micInitScreen">>
        /\ screen = "micInitScreen"

C2_Witness ==
    /\ lastEvent = "micSettled"
    /\ lastOutcome = "Permission dismissed"
    /\ screen = "micPermissionDismissedScreen"

\* C3: after a lexResponseReady event the 'processing' class is off the
\* message container, the transcript element holds the input transcript
\* between quotation marks, the container carries 'showingMessage', and the
\* host was asked to speak the response message and nothing else.
C3_HandleLexResponse ==
    lastEvent = "lexResponseReady" =>
        /\ "processing" \notin classList
        /\ "showingMessage" \in classList
        /\ transcriptText = <<"LEFT DOUBLE QUOTATION MARK">>
                                \o lastResponse.inputTranscript
                                \o <<"RIGHT DOUBLE QUOTATION MARK">>
        /\ Len(spoken) >= 1
        /\ \A i \in DOMAIN spoken : spoken[i] = lastResponse.message

C3_Witness ==
    /\ lastEvent = "lexResponseReady"
    /\ lastResponse.inputTranscript # <<>>
    /\ lastResponse.message # lastResponse.inputTranscript
    /\ transcriptText = <<"LEFT DOUBLE QUOTATION MARK">>
                            \o lastResponse.inputTranscript
                            \o <<"RIGHT DOUBLE QUOTATION MARK">>

C5_ClickEqualsKeyEverywhere ==
    timer # "unset" =>
        /\ Dispatch(St, "enableMicButton.onclick") = keyDownHandler(St)
        /\ keyDownHandler(St).acquireCalls = acquireCalls + 1

\* C5 as amended: in every state in which initUi has bound the enable-mic
\* button's click handler, a click on the button and a 'z' key-down have the
\* same effect: one invocation of acquireMicrophoneAccess, the same screens
\* and the same enableMicInput call.
C5_ClickEqualsKeyOnceBound ==
    /\ handlers["enableMicButton.onclick"] # "none" =>
        /\ Dispatch(St, "enableMicButton.onclick") = keyDownHandler(St)
        /\ keyDownHandler(St).acquireCalls = acquireCalls + 1
        /\ lastEvent = "click:enableMicButton" =>
               Count(trace, "showUiScreen", "micInitScreen") = 1
    /\ lastEvent = "keydown:z" => Count(trace, "showUiScreen", "micInitScreen") = 1

C5_Witness ==
    /\ lastEvent = "click:enableMicButton"
    /\ handlers["enableMicButton.onclick"] = "acquireMicrophoneAccess"
    /\ Count(trace, "enableMicInput", "") = 1
    /\ screen = "micInitScreen"

\* C6: a recordBegin event only removes 'showingMessage', a recordEnd event
\* only adds 'processing', neither touches the transcript text, and a
\* recordBegin directly followed by a recordEnd leaves the container with
\* 'showingMessage' removed and 'processing' added.
C6_RecordBeginThenEnd ==
    [][/\ lastEvent' = "recordBegin" =>
            /\ trace' = <<<<"classList.remove", "showingMessage">>>>
            /\ classList' = classList \ {"showingMessage"}
            /\ transcriptText' = transcriptText
       /\ lastEvent' = "recordEnd" =>
            /\ trace' = <<<<"classList.add", "processing">>>>
            /\ classList' = classList \cup {"processing"}
            /\ transcriptText' = transcriptText
       /\ (lastEvent = "recordBegin" /\ lastEvent' = "recordEnd") =>
            classList' = {"processing"}]_vars

C6_Witness ==
    /\ lastEvent = "recordEnd"
    /\ classList = {"processing"}
    /\ transcriptText # <<>>

\* C7: the message container never carries both 'processing' and
\* 'showingMessage'.
C7_AtMostOneVisualMode == ~({"processing", "showingMessage"} \subseteq classList)

C9_SpaceKeyMirrorsTalkButton ==
    /\ (lastEvent = "keydown:space" /\ lex # NoLex) =>
           Count(trace, "beginVoiceRecording", "") = 1
    /\ (lastEvent = "keyup:space" /\ lex # NoLex) =>
           Count(trace, "endVoiceRecording", "") = 1
    /\ (lastEvent = "mousedown:talkButton" /\ lex # NoLex) =>
           Count(trace, "beginVoiceRecording", "") = 1
    /\ (lastEvent = "mouseup:talkButton" /\ lex # NoLex) =>
           Count(trace, "endVoiceRecording", "") = 1

\* C10: the handling of a settled enableMicInput, failed or not, makes no
\* enableMicInput call and starts no new attempt; an event makes at most one
\* enableMicInput call, and only the timer callback, an enable-mic click or
\* a 'z' key-down makes one; so the calls never outnumber the triggers.
C10_NoRetry ==
    /\ lastEvent = "micSettled" =>
        /\ At("enableMicInput") = {}
        /\ Count(trace, "showUiScreen", "micInitScreen") = 0
    /\ Cardinality(At("enableMicInput")) <= 1
    /\ At("enableMicInput") # {} =>
           lastEvent \in {"timer", "click:enableMicButton", "keydown:z"}
    /\ micCalls <= acquireCalls
    /\ acquireCalls <= triggers

C10_Witness ==
    /\ lastEvent = "micSettled"
    /\ lastOutcome \in FailureMessages
    /\ micCalls = triggers
    /\ micCalls >= 2
    /\ pending = {}

\* the DOM state handleLexResponse writes: the container's classes and the
\* transcript element's text
DomState(s) == <<s.classList, s.transcriptText>>

\* C11: from every reachable state and for every response, handling the
\* response twice in a row leaves the same 'processing' flag, 'showingMessage'
\* flag and transcript text as handling it once; and the state a
\* lexResponseReady event leaves is unchanged by handling its response again.
C11_HandleLexResponseIdempotent ==
    elRefs =>
        /\ \A r \in Responses :
               DomState(handleLexResponse(handleLexResponse(St, r), r))
                   = DomState(handleLexResponse(St, r))
        /\ lastEvent = "lexResponseReady" =>
               DomState(handleLexResponse(St, lastResponse)) = DomState(St)

C11_Witness ==
    /\ lastEvent = "lexResponseReady"
    /\ Count(trace, "innerText=", "transcriptText") = 2
    /\ lastResponse.inputTranscript # <<>>
    /\ Len(transcriptText) = Len(lastResponse.inputTranscript) + 2

\* C12: a lexResponseReady event runs handleLexResponse exactly once: one
\* speech-playback call per chatbot response.
C12_OnePlaybackPerResponse ==
    lastEvent = "lexResponseReady" =>
        /\ Count(trace, "console.log", "response") = 1
        /\ Len(spoken) = 1

\* the screen the code's comments and screen names assign to an outcome
OutcomeScreen(outcome) ==
    IF outcome = "ok"
    THEN "startScreen"
    ELSE IF outcome = "Permission dismissed"
         THEN "micPermissionDismissedScreen"
         ELSE "micDisabledScreen"

\* C13 as stated: once all of several overlapping acquisitions have settled
\* the screen is that of the outcome of the most recently started attempt,
\* and while an attempt is still pending a settlement leaves the mic-init
\* screen visible.
C13_NewestAttemptWins ==
    /\ (lastEvent = "micSettled" /\ pending = {} /\ micCalls >= 2) =>
           screen = OutcomeScreen(newestOutcome)
    /\ (lastEvent = "micSettled" /\ pending # {}) => screen = "micInitScreen"

\* C13 as amended: every settlement shows the screen of the outcome of the
\* attempt that settled, also while other attempts are still pending, so once
\* all have settled the screen is that of the attempt that settled last; and
\* an attempt started while others are pending shows the mic-init screen
\* again.
C13_LastSettledWins ==
    /\ lastEvent = "micSettled" =>
        /\ screen = OutcomeScreen(lastOutcome)
        /\ pending # {} => screen # "micInitScreen"
    /\ (At("enableMicInput") # {} /\ Cardinality(pending) >= 2) =>
           screen = "micInitScreen"

C13_Witness ==
    /\ lastEvent = "micSettled"
    /\ pending = {}
    /\ micCalls >= 2
    /\ newestOutcome = "ok"
    /\ lastOutcome = "Permission denied"
    /\ screen = "micDisabledScreen"

\* C14: a 'z' key-down while this.lex is still undefined raises no unhandled
\* error and makes no enableMicInput call: it shows the mic-init screen and
\* then the mic-disabled screen; the timer callback that follows still makes
\* its enableMicInput call behind the mic-init screen, and its settlement
\* sets the screen by its own outcome.
C14_ShortcutBeforeInit ==
    /\ (lastEvent = "keydown:z" /\ lex = NoLex) =>
        /\ trace = <<<<"showUiScreen", "micInitScreen">>,
                     <<"showUiScreen", "micDisabledScreen">>>>
        /\ screen = "micDisabledScreen"
        /\ micCalls = 0
        /\ pending = {}
    /\ lex = NoLex => micCalls = 0
    /\ \A i \in DOMAIN trace : trace[i][1] # "throw"
    /\ (lastEvent = "timer" /\ acquireCalls > 1) =>
        /\ Count(trace, "enableMicInput", "") = 1
        /\ micCalls = 1
        /\ pending = {acquireCalls}
        /\ screen = "micInitScreen"
    /\ (lastEvent = "micSettled" /\ acquireCalls > micCalls) =>
           screen = OutcomeScreen(lastOutcome)

C14_Witness ==
    /\ lastEvent = "micSettled"
    /\ acquireCalls = 2
    /\ micCalls = 1
    /\ lastOutcome = "ok"
    /\ screen = "startScreen"

\* C15 as stated: lexResponseReady, recordBegin and recordEnd never change
\* the screen; a start click, an enable-mic click, a 'z' key-down and the
\* timer callback never change the container's classes or the transcript
\* text; and the chatbot UI screen, once shown, is only left by a step that
\* triggers a microphone acquisition.
C15_DisjointUiStateUntilTriggered ==
    [][/\ lastEvent' \in LexEvents => screen' = screen
       /\ lastEvent' \in {"click:startButton", "click:enableMicButton",
                          "keydown:z", "timer"} =>
            /\ classList' = classList
            /\ transcriptText' = transcriptText
       /\ (screen = "chatbotUiScreen" /\ screen' # "chatbotUiScreen") =>
            lastEvent' \in {"click:enableMicButton", "keydown:z"}]_vars

\* C15 as amended: the same, with the chatbot UI screen only left by a step
\* that triggers a microphone acquisition or that resumes one whose
\* enableMicInput has settled; the resumption changes neither the classes
\* nor the transcript text.
C15_DisjointUiState ==
    [][/\ lastEvent' \in LexEvents => screen' = screen
       /\ lastEvent' \in {"click:startButton", "click:enableMicButton",
                          "keydown:z", "timer", "micSettled"} =>
            /\ classList' = classList
            /\ transcriptText' = transcriptText
       /\ (screen = "chatbotUiScreen" /\ screen' # "chatbotUiScreen") =>
            lastEvent' \in {"click:enableMicButton", "keydown:z", "micSettled"}]_vars

C15_Witness ==
    /\ lastEvent = "micSettled"
    /\ screen \in {"startScreen", "micDisabledScreen"}
    /\ classList = {"processing", "showingMessage"}
    /\ transcriptText # <<>>
    /\ pending # {}

====
